---- MODULE Spec2Model ----
(***************************************************************************)
(* State-machine model of the OpenASVG playback engine                     *)
(* (src/js/openasvg.js, class OpenASVG).                                   *)
(*                                                                         *)
(* Representation.  Times are fixed-point integers: performance.now() and  *)
(* _startTime are in clock units, and state.currentTime / state.duration   *)
(* are held in the same unit (seconds x 1000 in the source), so the        *)
(* source's "* 1000" and "/ 1000" are exact scale changes.  The pending    *)
(* requestAnimationFrame callbacks are the sequence `pending` of handles,  *)
(* in registration order; _animationFrame = 0 stands for null.  A listener *)
(* of the 'update' event is a one-shot script of engine calls (the host    *)
(* registers it with {once: true}); it runs inside emit('update').         *)
(* `lastOp` and `log` are history variables: the operation of the last     *)
(* step and the events it emitted, in order.  _lastFrameTime is written by *)
(* play() and read nowhere, and is left out.                               *)
(*                                                                         *)
(* `svgContent` is the <svg>: element -> attribute -> value.  Numbers     *)
(* that a sample computes are exact rationals [n, d] in lowest terms, with *)
(* d = 0 for NaN.  `targetCache` is the selector cache of getTargets.      *)
(* `writes`, `eased` and `thrown` are history variables of the last step:  *)
(* its setAttribute calls, the progress values it passed to applyEasing,   *)
(* and whether the call ended by an exception thrown to its caller.        *)
(* `source` is the document a constructor given a URL is still fetching    *)
(* (its <timeline> element); NoSource once it is parsed.                   *)
(***************************************************************************)
EXTENDS Integers, Sequences, FiniteSets, TLC

VARIABLES playing, currentTime, duration, playbackRate, loop, currentState,
          timeline, startTime, animationFrame, pending, exports, now,
          lastOp, log, ended,
          svgContent, targetCache, writes, eased, thrown, source

vars == <<playing, currentTime, duration, playbackRate, loop, currentState,
          timeline, startTime, animationFrame, pending, exports, now,
          lastOp, log, ended,
          svgContent, targetCache, writes, eased, thrown, source>>

(* ------------------------------ bounds -------------------------------- *)
MaxNow == 2
MaxPending == 2
MaxExports == 1
MaxDenominator == 2
MaxTransformLen == 30

(* ------------------------------ helpers ------------------------------- *)
Max(a, b) == IF a >= b THEN a ELSE b
Min(a, b) == IF a <= b THEN a ELSE b
Range(q) == { q[i] : i \in 1..Len(q) }
Without(q, x) == SelectSeq(q, LAMBDA y : y # x)

Ev(name, detail) == [name |-> name, detail |-> detail]
Names(l) == { l[i].name : i \in 1..Len(l) }

\* this.events.dispatchEvent(new CustomEvent(event, {detail}))
emit(s, name, detail) == [s EXCEPT !.log = Append(@, Ev(name, detail))]

\* the engine object, as a record of the state variables
Engine ==
    [ playing |-> playing, currentTime |-> currentTime, duration |-> duration,
      playbackRate |-> playbackRate, loop |-> loop, currentState |-> currentState,
      timeline |-> timeline, startTime |-> startTime,
      animationFrame |-> animationFrame, pending |-> pending, log |-> <<>>,
      svgContent |-> svgContent, targetCache |-> targetCache,
      writes |-> <<>>, eased |-> <<>>, thrown |-> FALSE ]

(* ------------------------------ documents ----------------------------- *)
\* getAttribute of an attribute the element does not carry
null == "<null>"

\* an element of the parsed XML document
El(tag, attrs, children) == [tagName |-> tag, attributes |-> attrs, children |-> children]

getAttribute(el, name) ==
    IF name \in DOMAIN el.attributes THEN el.attributes[name] ELSE null

\* a || b, for a an attribute string or null
Or(a, b) == IF a = null \/ a = "" THEN b ELSE a

\* repeat = Infinity: above every iteration count a sample here computes
Infinity == 1000000

\* parseInt on the numerals the documents use
parseInt(str) ==
    CASE str = "0" -> 0
      [] str = "1" -> 1
      [] str = "2" -> 2
      [] str = "3" -> 3

\* timeStr.match(/^([\d.]+)(ms|s|m)?$/): << parseFloat(match[1]), match[2] >>,
\* for the time strings that match; every other string does not match
TimeMatch ==
    ( "0s" :> <<0, "s">> ) @@ ( "0" :> <<0, "">> ) @@
    ( "1ms" :> <<1, "ms">> ) @@ ( "2ms" :> <<2, "ms">> ) @@
    ( "4ms" :> <<4, "ms">> ) @@
    ( "1s" :> <<1, "s">> ) @@ ( "2s" :> <<2, "s">> ) @@ ( "3s" :> <<3, "s">> ) @@
    ( "5s" :> <<5, "s">> ) @@
    ( "2" :> <<2, "">> ) @@ ( "1m" :> <<1, "m">> )

\* parseTime, in clock units (1/1000 s): the source returns seconds
parseTime(timeStr) ==
    IF timeStr = null \/ timeStr = "" THEN 0
    ELSE IF timeStr \notin DOMAIN TimeMatch THEN 0
    ELSE LET value == TimeMatch[timeStr][1]
             unit == Or(TimeMatch[timeStr][2], "s")
         IN  CASE unit = "ms" -> value
               [] unit = "s"  -> value * 1000
               [] unit = "m"  -> value * 60 * 1000

parseAnimate(el, parentStart) ==
    LET repeat == Or(getAttribute(el, "repeat"), "1")
    IN  [ type |-> "animate",
          target |-> getAttribute(el, "target"),
          attribute |-> getAttribute(el, "attribute"),
          from |-> getAttribute(el, "from"),
          to |-> getAttribute(el, "to"),
          by |-> getAttribute(el, "by"),
          start |-> parentStart + parseTime(Or(getAttribute(el, "start"), "0s")),
          duration |-> parseTime(Or(getAttribute(el, "duration"), "0s")),
          easing |-> Or(getAttribute(el, "easing"), "linear"),
          repeat |-> IF repeat = "infinite" THEN Infinity ELSE parseInt(repeat),
          reverse |-> getAttribute(el, "reverse") = "true",
          fill |-> Or(getAttribute(el, "fill"), "none"),
          id |-> getAttribute(el, "id") ]

\* repeat stays the attribute's string here
parseAnimateTransform(el, parentStart) ==
    [ type |-> "animate-transform",
      target |-> getAttribute(el, "target"),
      transformType |-> getAttribute(el, "type"),
      from |-> getAttribute(el, "from"),
      to |-> getAttribute(el, "to"),
      start |-> parentStart + parseTime(Or(getAttribute(el, "start"), "0s")),
      duration |-> parseTime(Or(getAttribute(el, "duration"), "0s")),
      easing |-> Or(getAttribute(el, "easing"), "linear"),
      repeat |-> Or(getAttribute(el, "repeat"), "1"),
      reverse |-> getAttribute(el, "reverse") = "true",
      additive |-> Or(getAttribute(el, "additive"), "replace"),
      id |-> getAttribute(el, "id") ]

\* no repeat, reverse or fill is read
parseAnimatePath(el, parentStart) ==
    [ type |-> "animate-path",
      target |-> getAttribute(el, "target"),
      path |-> getAttribute(el, "path"),
      start |-> parentStart + parseTime(Or(getAttribute(el, "start"), "0s")),
      duration |-> parseTime(Or(getAttribute(el, "duration"), "0s")),
      easing |-> Or(getAttribute(el, "easing"), "linear"),
      rotate |-> Or(getAttribute(el, "rotate"), "none"),
      anchor |-> Or(getAttribute(el, "anchor"), "center"),
      id |-> getAttribute(el, "id") ]

parseAnimateColor(el, parentStart) ==
    [ type |-> "animate-color",
      target |-> getAttribute(el, "target"),
      attribute |-> getAttribute(el, "attribute"),
      from |-> getAttribute(el, "from"),
      to |-> getAttribute(el, "to"),
      start |-> parentStart + parseTime(Or(getAttribute(el, "start"), "0s")),
      duration |-> parseTime(Or(getAttribute(el, "duration"), "0s")),
      easing |-> Or(getAttribute(el, "easing"), "linear"),
      colorSpace |-> Or(getAttribute(el, "color-space"), "srgb"),
      id |-> getAttribute(el, "id") ]

parseMorph(el, parentStart) ==
    [ type |-> "morph",
      target |-> getAttribute(el, "target"),
      to |-> getAttribute(el, "to"),
      start |-> parentStart + parseTime(Or(getAttribute(el, "start"), "0s")),
      duration |-> parseTime(Or(getAttribute(el, "duration"), "0s")),
      easing |-> Or(getAttribute(el, "easing"), "linear"),
      preserveCorners |-> getAttribute(el, "preserve-corners") = "true",
      id |-> getAttribute(el, "id") ]

\* parseAnimation's null, for a tag it does not know
NoAnim == [type |-> "<null>"]

\* parseSequence's step with the maximum in place of the sum
sequenceAdvance_max(currentStart, anim) == Max(currentStart, anim.duration)

\* currentStart += anim.duration
sequenceAdvance(currentStart, anim) == currentStart + anim.duration

RECURSIVE parseAnimation(_, _)

\* the loop of parseSequence over el.children
RECURSIVE sequenceLoop(_, _, _)
sequenceLoop(children, animations, currentStart) ==
    IF children = <<>>
    THEN [animations |-> animations, currentStart |-> currentStart]
    ELSE LET anim == parseAnimation(Head(children), currentStart)
         IN  IF anim = NoAnim
             THEN sequenceLoop(Tail(children), animations, currentStart)
             ELSE sequenceLoop(Tail(children), Append(animations, anim),
                               sequenceAdvance(currentStart, anim))

parseSequence(el, parentStart) ==
    LET r == sequenceLoop(el.children, <<>>, parentStart)
    IN  [ type |-> "sequence",
          animations |-> r.animations,
          repeat |-> Or(getAttribute(el, "repeat"), "1"),
          id |-> getAttribute(el, "id"),
          duration |-> r.currentStart - parentStart ]

\* the loop of parseParallel and of parseAnimateSet over el.children;
\* target = null leaves the children's targets alone
RECURSIVE parallelLoop(_, _, _, _, _)
parallelLoop(children, parentStart, target, animations, maxDuration) ==
    IF children = <<>>
    THEN [animations |-> animations, maxDuration |-> maxDuration]
    ELSE LET parsed == parseAnimation(Head(children), parentStart)
             anim == IF target = null \/ parsed = NoAnim THEN parsed
                     ELSE [ k \in DOMAIN parsed \cup {"target"} |->
                              IF k = "target" THEN target ELSE parsed[k] ]
         IN  IF parsed = NoAnim
             THEN parallelLoop(Tail(children), parentStart, target, animations, maxDuration)
             ELSE parallelLoop(Tail(children), parentStart, target,
                               Append(animations, anim),
                               Max(maxDuration, anim.duration))

parseParallel(el, parentStart) ==
    LET r == parallelLoop(el.children, parentStart, null, <<>>, 0)
    IN  [ type |-> "parallel",
          animations |-> r.animations,
          id |-> getAttribute(el, "id"),
          duration |-> r.maxDuration ]

\* every <animate-set> of the documents carries a target
parseAnimateSet(el, parentStart) ==
    LET target == getAttribute(el, "target")
        r == parallelLoop(el.children, parentStart, target, <<>>, 0)
    IN  [ type |-> "animate-set",
          animations |-> r.animations,
          target |-> target,
          id |-> getAttribute(el, "id"),
          duration |-> r.maxDuration ]

parseAnimation(el, parentStart) ==
    CASE el.tagName = "animate"     -> parseAnimate(el, parentStart)
      [] el.tagName = "animate-transform" -> parseAnimateTransform(el, parentStart)
      [] el.tagName = "animate-path"  -> parseAnimatePath(el, parentStart)
      [] el.tagName = "animate-color" -> parseAnimateColor(el, parentStart)
      [] el.tagName = "morph"         -> parseMorph(el, parentStart)
      [] el.tagName = "sequence"    -> parseSequence(el, parentStart)
      [] el.tagName = "parallel"    -> parseParallel(el, parentStart)
      [] el.tagName = "animate-set" -> parseAnimateSet(el, parentStart)
      [] OTHER                      -> NoAnim

RECURSIVE timelineLoop(_)
timelineLoop(children) ==
    IF children = <<>> THEN <<>>
    ELSE LET anim == parseAnimation(Head(children), 0)
         IN  IF anim = NoAnim THEN timelineLoop(Tail(children))
             ELSE << anim >> \o timelineLoop(Tail(children))

parseTimeline(timelineEl) == timelineLoop(timelineEl.children)

(* ------------------------------ inputs -------------------------------- *)
\* an <animate> element on attribute x
Animate(attrs) == El("animate", attrs @@ [attribute |-> "x"], <<>>)

\* the <timeline> of the document: leaves ending at 1 and at 2, on a
\* selector that matches no element of the <svg>
MainTimelineEl ==
    El("timeline", [id |-> "main"],
       << Animate([target |-> "#b", duration |-> "1ms", from |-> "0", to |-> "1"]),
          Animate([target |-> "#b", start |-> "1ms", duration |-> "1ms",
                   from |-> "0", to |-> "1"]) >>)

MainTimeline == parseTimeline(MainTimelineEl)

\* the <state> elements, by id
StateEls ==
    ( 1 :> El("state", [id |-> "1"],
              << Animate([target |-> "#b", duration |-> "1ms",
                          from |-> "0", to |-> "1"]) >>) )

\* the <states> table: id -> timeline of the <state> element
States == [ id \in DOMAIN StateEls |-> parseTimeline(StateEls[id]) ]

StateIds == {1, 2}               \* 2 is an id the table does not hold
SeekTimes == {-1, 1, 5}
Rates == {-1, 1, 2}
DurationAttrs == {0}             \* the root's duration attribute; 0 = absent

Call(op, arg) == [op |-> op, arg |-> arg]

\* the scripts an 'update' listener may run
HandlerScripts ==
    { <<>>,
      << Call("pause", 0) >>,
      << Call("pause", 0), Call("play", 0) >>,
      << Call("stop", 0) >> }

(* ------------------------- duration calculator ------------------------ *)
GroupTypes == {"sequence", "parallel", "animate-set"}

\* the numerals a repeat attribute of the documents may hold
Numerals == {"0", "1", "2", "3"}

\* (anim.repeat === Infinity || anim.repeat === 'infinite') ? 1
\*     : parseInt(anim.repeat) || 1
\* for a number (animate), a string (animate-transform) and a leaf that has
\* no repeat field (parseInt(undefined) is NaN)
Iterations(anim) ==
    IF "repeat" \notin DOMAIN anim THEN 1
    ELSE IF anim.type = "animate-transform"
    THEN IF anim.repeat \in Numerals /\ parseInt(anim.repeat) # 0
         THEN parseInt(anim.repeat) ELSE 1
    ELSE IF anim.repeat = Infinity \/ anim.repeat = 0 THEN 1
    ELSE anim.repeat

\* maxEnd: the largest start + duration * iterations over the leaves
RECURSIVE MaxEnd(_)
MaxEnd(tl) ==
    IF tl = <<>> THEN 0
    ELSE LET anim == Head(tl)
             iterations == Iterations(anim)
         IN  IF anim.type \in GroupTypes
             THEN Max(MaxEnd(anim.animations), MaxEnd(Tail(tl)))
             ELSE Max(anim.start + anim.duration * iterations, MaxEnd(Tail(tl)))

\* calculateDuration without the root's duration attribute
calculateDuration_noOverride(tl, optDuration) == MaxEnd(tl)

\* return this.options.duration || maxEnd
calculateDuration(tl, optDuration) ==
    IF optDuration # 0 THEN optDuration ELSE MaxEnd(tl)

(* ------------------------------ numbers ------------------------------- *)
Abs(a) == IF a < 0 THEN -a ELSE a

RECURSIVE Gcd(_, _)
Gcd(a, b) == IF b = 0 THEN a ELSE Gcd(b, a % b)

NaN == [n |-> 0, d |-> 0]
IsNaN(x) == x.d = 0

\* the number n / d, d > 0
Rat(n, d) == LET g == Gcd(Abs(n), d) IN [n |-> n \div g, d |-> d \div g]
Num(i) == [n |-> i, d |-> 1]

\* a + b, a - b, a * b and a < b of the source's numbers
Plus(a, b) == IF IsNaN(a) \/ IsNaN(b) THEN NaN ELSE Rat(a.n * b.d + b.n * a.d, a.d * b.d)
Minus(a, b) == IF IsNaN(a) \/ IsNaN(b) THEN NaN ELSE Rat(a.n * b.d - b.n * a.d, a.d * b.d)
Times(a, b) == IF IsNaN(a) \/ IsNaN(b) THEN NaN ELSE Rat(a.n * b.n, a.d * b.d)
Less(a, b) == ~IsNaN(a) /\ ~IsNaN(b) /\ a.n * b.d < b.n * a.d

\* parseFloat on the numerals the documents use
parseFloat(str) ==
    CASE str = "0" -> Num(0)
      [] str = "1" -> Num(1)
      [] str = "8" -> Num(8)
      [] str = "20" -> Num(20)

(* ------------------------------ sampling ------------------------------ *)
\* the <svg> content: one element, id a, with x="0"
SvgDocument == [a |-> [x |-> Num(0)]]

\* svgContent.querySelectorAll(selector), for the selectors that parse
\* (c is an element of the document of shapes only, and only its leaves
\* select it);
\* for every other string it throws a SyntaxError
querySelectorAll == ( "#a" :> << "a" >> ) @@ ( "#b" :> <<>> ) @@ ( "#c" :> << "c" >> )

\* getTargets: the engine after the call, and the list returned
getTargets(s, selector) ==
    IF selector = null \/ selector = "" THEN [engine |-> s, targets |-> <<>>]
    ELSE IF selector \in DOMAIN s.targetCache
    THEN [engine |-> s, targets |-> s.targetCache[selector]]
    ELSE IF selector \notin DOMAIN querySelectorAll
    THEN [engine |-> [s EXCEPT !.thrown = TRUE], targets |-> <<>>]
    ELSE LET targets == querySelectorAll[selector]
         IN  [ engine |-> [s EXCEPT !.targetCache = (selector :> targets) @@ @],
               targets |-> targets ]

\* iterations >= anim.repeat: a string repeat (animate-transform) is
\* converted to a number, NaN unless a numeral; a leaf with no repeat field
\* compares against undefined; a comparison with NaN is false
AtLeastRepeat(iterations, anim) ==
    IF "repeat" \notin DOMAIN anim THEN FALSE
    ELSE IF anim.type = "animate-transform"
    THEN anim.repeat \in Numerals /\ iterations >= parseInt(anim.repeat)
    ELSE iterations >= anim.repeat

\* calculateProgress without the flip of odd iterations
calculateProgress_noReverse(anim, time) ==
    LET relativeTime == time - anim.start
    IN  IF relativeTime < 0 THEN Num(-1)
        ELSE IF anim.duration = 0
        THEN IF relativeTime = 0 THEN NaN
             ELSE IF AtLeastRepeat(Infinity, anim) THEN Num(2) ELSE NaN
        ELSE IF AtLeastRepeat(relativeTime \div anim.duration, anim) THEN Num(2)
        ELSE Rat(relativeTime % anim.duration, anim.duration)

\* calculateProgress: -1 not started, 2 finished.  With duration 0 the
\* quotient relativeTime / duration is NaN at relativeTime 0 (NaN >= repeat
\* is false, (0 % 0) / 0 is NaN, NaN % 2 === 1 is false) and Infinity above
calculateProgress(anim, time) ==
    LET relativeTime == time - anim.start
    IN  IF relativeTime < 0 THEN Num(-1)
        ELSE IF anim.duration = 0
        THEN IF relativeTime = 0 THEN NaN
             ELSE IF AtLeastRepeat(Infinity, anim) THEN Num(2) ELSE NaN
        ELSE LET iterations == relativeTime \div anim.duration
                 progress == Rat(relativeTime % anim.duration, anim.duration)
             IN  IF AtLeastRepeat(iterations, anim) THEN Num(2)
                 ELSE IF "reverse" \in DOMAIN anim /\ anim.reverse /\ iterations % 2 = 1
                 THEN Minus(Num(1), progress)
                 ELSE progress

\* applyEasing for 'linear' and for a name that is neither in the table
\* nor a cubic-bezier(...): both return t.  The documents use no other.
applyEasing(t, easing) == t

\* target.setAttribute(attribute, value)
setAttribute(s, target, attribute, value) ==
    [s EXCEPT !.svgContent[target] = (attribute :> value) @@ @,
              !.writes = Append(@, [target |-> target, attribute |-> attribute,
                                    value |-> value])]

\* targets.forEach of updateAnimate
RECURSIVE animateTargets(_, _, _, _)
animateTargets(s, targets, anim, easedProgress) ==
    IF targets = <<>> THEN s
    ELSE LET target == Head(targets)
             from == IF anim.from # null /\ anim.from # "" THEN parseFloat(anim.from)
                     ELSE IF anim.attribute \in DOMAIN s.svgContent[target]
                     THEN s.svgContent[target][anim.attribute]
                     ELSE Num(0)
             to == IF anim.to # null /\ anim.to # "" THEN parseFloat(anim.to) ELSE from
             value == Plus(from, Times(Minus(to, from), easedProgress))
         IN  animateTargets(setAttribute(s, target, anim.attribute, value),
                            Tail(targets), anim, easedProgress)

\* the guards every update function starts with: no target, or a progress
\* outside [0, 1]
Active(r, progress) ==
    /\ ~r.engine.thrown
    /\ r.targets # <<>>
    /\ ~Less(progress, Num(0))
    /\ ~Less(Num(1), progress)

\* the engine as the targets' loop finds it, the sample's progress recorded
Sampled(r, progress) == [r.engine EXCEPT !.eased = Append(@, progress)]

animateActive(r, anim, progress) ==
    IF ~Active(r, progress) THEN r.engine
    ELSE animateTargets(Sampled(r, progress), r.targets, anim,
                        applyEasing(progress, anim.easing))

updateAnimate(s, anim, time) ==
    animateActive(getTargets(s, anim.target), anim, calculateProgress(anim, time))

\* target.getAttribute(name) on an element of the <svg>
attributeOf(s, target, name) ==
    IF name \in DOMAIN s.svgContent[target] THEN s.svgContent[target][name] ELSE null

\* svgContent.querySelector(selector): the first match or null
querySelector(selector) ==
    IF selector \in DOMAIN querySelectorAll /\ querySelectorAll[selector] # <<>>
    THEN Head(querySelectorAll[selector])
    ELSE null

\* a number inside a template literal: an integer, a half or a quarter
String(x) ==
    IF IsNaN(x) THEN "NaN"
    ELSE LET sign == IF x.n < 0 THEN "-" ELSE ""
             whole == ToString(Abs(x.n) \div x.d)
             rest == << Abs(x.n) % x.d, x.d >>
         IN  CASE x.d = 1 -> sign \o whole
               [] rest = <<1, 2>> -> sign \o whole \o ".5"
               [] rest = <<1, 4>> -> sign \o whole \o ".25"
               [] rest = <<3, 4>> -> sign \o whole \o ".75"

\* str.split(/\s+/), for the from and to strings of the documents
Split == ( "0" :> << "0" >> ) @@ ( "20" :> << "20" >> ) @@ ( "0 0" :> << "0", "0" >> )

\* interpolated.join(' ')
RECURSIVE Join(_)
Join(parts) ==
    IF parts = <<>> THEN ""
    ELSE IF Len(parts) = 1 THEN String(parts[1])
    ELSE String(Head(parts)) \o " " \o Join(Tail(parts))

\* a part that toParts lacks is undefined, and the sum NaN
interpolateTransform(type, from, to, progress) ==
    LET fromParts == [ i \in DOMAIN Split[from] |-> parseFloat(Split[from][i]) ]
        toParts == [ i \in DOMAIN Split[to] |-> parseFloat(Split[to][i]) ]
        interpolated ==
            [ i \in DOMAIN fromParts |->
                IF i \in DOMAIN toParts
                THEN Plus(fromParts[i], Times(Minus(toParts[i], fromParts[i]), progress))
                ELSE NaN ]
    IN  CASE type \in {"translate", "scale", "rotate"} ->
                type \o "(" \o Join(interpolated) \o ")"
          [] type \in {"skewX", "skewY"} ->
                type \o "(" \o String(interpolated[1]) \o ")"
          [] OTHER -> ""

\* the attribute written whatever anim.additive says
transformValue_replace(anim, existing, transform) == transform

\* lines 529-534: 'sum' appends to the existing attribute, after one space
transformValue(anim, existing, transform) ==
    IF anim.additive = "sum" THEN existing \o " " \o transform ELSE transform

\* targets.forEach of updateAnimateTransform; from.split throws on null
RECURSIVE transformTargets(_, _, _, _)
transformTargets(s, targets, anim, easedProgress) ==
    IF targets = <<>> THEN s
    ELSE IF anim.from = null \/ anim.to = null THEN [s EXCEPT !.thrown = TRUE]
    ELSE LET target == Head(targets)
             transform == interpolateTransform(anim.transformType, anim.from,
                                               anim.to, easedProgress)
             existing == Or(attributeOf(s, target, "transform"), "")
         IN  transformTargets(
                 setAttribute(s, target, "transform",
                              transformValue(anim, existing, transform)),
                 Tail(targets), anim, easedProgress)

transformActive(r, anim, progress) ==
    IF ~Active(r, progress) THEN r.engine
    ELSE transformTargets(Sampled(r, progress), r.targets, anim,
                          applyEasing(progress, anim.easing))

updateAnimateTransform(s, anim, time) ==
    transformActive(getTargets(s, anim.target), anim, calculateProgress(anim, time))

\* path.getTotalLength() of the path data the documents use: horizontal
\* lines from the origin
TotalLength == ( "M0 0 L10 0" :> 10 ) @@ ( "M0 0 L20 0" :> 20 )

\* getPointOnPath on such a line: the point at length * progress, and
\* atan2(0, dx) with dx > 0 between the points one unit before and after
getPointOnPath(pathData, progress) ==
    [ x |-> Times(Num(TotalLength[pathData]), progress), y |-> Num(0), angle |-> Num(0) ]

\* targets.forEach of updateAnimatePath
RECURSIVE pathTargets(_, _, _, _)
pathTargets(s, targets, anim, point) ==
    IF targets = <<>> THEN s
    ELSE LET translate == "translate(" \o String(point.x) \o ", " \o String(point.y) \o ")"
             angle == Plus(point.angle,
                           IF anim.rotate = "auto-reverse" THEN Num(180) ELSE Num(0))
             transform == IF anim.rotate \in {"auto", "auto-reverse"}
                          THEN translate \o " rotate(" \o String(angle) \o ")"
                          ELSE translate
         IN  pathTargets(setAttribute(s, Head(targets), "transform", transform),
                         Tail(targets), anim, point)

\* anim.path.startsWith throws on null; a path that starts with '#' names
\* an element, whose d is read
\* the path data: of the element anim.path names when it starts with '#',
\* else anim.path itself
pathDataOf(s, anim) ==
    IF querySelector(anim.path) # null
    THEN attributeOf(s, querySelector(anim.path), "d")
    ELSE anim.path

pathActive(r, anim, progress) ==
    IF ~Active(r, progress) THEN r.engine
    ELSE IF anim.path = null THEN [Sampled(r, progress) EXCEPT !.thrown = TRUE]
    ELSE pathTargets(Sampled(r, progress), r.targets, anim,
                     getPointOnPath(pathDataOf(r.engine, anim),
                                    applyEasing(progress, anim.easing)))

updateAnimatePath(s, anim, time) ==
    pathActive(getTargets(s, anim.target), anim, calculateProgress(anim, time))

\* parseColor on #rrggbb; a string of neither form is black
parseColor(color) ==
    CASE color = "#000000" -> [r |-> 0, g |-> 0, b |-> 0]
      [] color = "#ff0000" -> [r |-> 255, g |-> 0, b |-> 0]
      [] color = "#00ff00" -> [r |-> 0, g |-> 255, b |-> 0]
      [] OTHER -> [r |-> 0, g |-> 0, b |-> 0]

\* Math.round: the nearest integer, a half going up
Round(x) == (2 * x.n + x.d) \div (2 * x.d)

interpolateColor(from, to, progress) ==
    LET fromRgb == parseColor(from)
        toRgb == parseColor(to)
        channel(f, t) ==
            LET v == Plus(Num(f), Times(Num(t - f), progress))
            IN  IF IsNaN(v) THEN "NaN" ELSE ToString(Round(v))
    IN  "rgb(" \o channel(fromRgb.r, toRgb.r) \o ", " \o channel(fromRgb.g, toRgb.g)
               \o ", " \o channel(fromRgb.b, toRgb.b) \o ")"

\* targets.forEach of updateAnimateColor
RECURSIVE colorTargets(_, _, _, _)
colorTargets(s, targets, anim, color) ==
    IF targets = <<>> THEN s
    ELSE colorTargets(setAttribute(s, Head(targets), anim.attribute, color),
                      Tail(targets), anim, color)

\* color.match throws on null
colorActive(r, anim, progress) ==
    IF ~Active(r, progress) THEN r.engine
    ELSE IF anim.from = null \/ anim.to = null
    THEN [Sampled(r, progress) EXCEPT !.thrown = TRUE]
    ELSE colorTargets(Sampled(r, progress), r.targets, anim,
                      interpolateColor(anim.from, anim.to,
                                       applyEasing(progress, anim.easing)))

updateAnimateColor(s, anim, time) ==
    colorActive(getTargets(s, anim.target), anim, calculateProgress(anim, time))

\* return progress < 0.5 ? fromPath : toPath
interpolatePath(fromPath, toPath, progress) ==
    IF Less(progress, Rat(1, 2)) THEN fromPath ELSE toPath

\* targets.forEach of updateMorph: fromPath is the target's d at this sample
RECURSIVE morphTargets(_, _, _, _)
morphTargets(s, targets, toEl, easedProgress) ==
    IF targets = <<>> THEN s
    ELSE LET target == Head(targets)
             fromPath == attributeOf(s, target, "d")
             toPath == attributeOf(s, toEl, "d")
             s1 == IF Or(fromPath, "") # "" /\ Or(toPath, "") # ""
                   THEN setAttribute(s, target, "d",
                                     interpolatePath(fromPath, toPath, easedProgress))
                   ELSE s
         IN  morphTargets(s1, Tail(targets), toEl, easedProgress)

morphActive(r, anim, progress) ==
    IF ~Active(r, progress) THEN r.engine
    ELSE IF querySelector(anim.to) = null THEN Sampled(r, progress)
    ELSE morphTargets(Sampled(r, progress), r.targets, querySelector(anim.to),
                      applyEasing(progress, anim.easing))

updateMorph(s, anim, time) ==
    morphActive(getTargets(s, anim.target), anim, calculateProgress(anim, time))

\* updateAnim over a list of animations; an exception ends the walk
RECURSIVE updateAnim(_, _, _)
updateAnim(s, anims, time) ==
    IF anims = <<>> \/ s.thrown THEN s
    ELSE LET anim == Head(anims)
             s1 == IF anim.type = "animate" THEN updateAnimate(s, anim, time)
                   ELSE IF anim.type = "animate-transform"
                   THEN updateAnimateTransform(s, anim, time)
                   ELSE IF anim.type = "animate-path"
                   THEN updateAnimatePath(s, anim, time)
                   ELSE IF anim.type = "animate-color"
                   THEN updateAnimateColor(s, anim, time)
                   ELSE IF anim.type = "morph" THEN updateMorph(s, anim, time)
                   ELSE IF anim.type \in GroupTypes
                   THEN updateAnim(s, anim.animations, time)
                   ELSE s
         IN  updateAnim(s1, Tail(anims), time)

(* --------------------------- playback control ------------------------- *)
\* updateAnimations(time): one sample of this.timeline at `time`, recorded
\* in the log as "sample" (the document has a <timeline> and an <svg>, so
\* the early return of line 462 is not taken)
updateAnimations(s, time) == updateAnim(emit(s, "sample", time), s.timeline, time)

sampled(s, name, detail) == IF s.thrown THEN s ELSE emit(s, name, detail)

pause(s) ==
    IF ~s.playing THEN s
    ELSE LET s1 == [s EXCEPT !.playing = FALSE]
             s2 == IF s1.animationFrame # 0
                   THEN [s1 EXCEPT !.pending = Without(@, s1.animationFrame),
                                   !.animationFrame = 0]
                   ELSE s1
         IN  emit(s2, "pause", 0)

stop(s) ==
    LET s1 == pause(s)
        s2 == [s1 EXCEPT !.currentTime = 0]
    IN  sampled(updateAnimations(s2, 0), "stop", 0)

\* clampTime without its lower bound
clampTime_noLower(time, dur) == Min(time, dur)

\* Math.max(0, Math.min(time, this.state.duration))
clampTime(time, dur) == Max(0, Min(time, dur))

seek(s, t, time) ==
    LET s1 == [s EXCEPT !.currentTime = clampTime(time, s.duration)]
        s2 == [s1 EXCEPT !.startTime = t - s1.currentTime]
    IN  sampled(updateAnimations(s2, s2.currentTime), "seek", s2.currentTime)

\* setState without the reset of currentTime
setState_noReset(s, t, stateId) ==
    IF stateId \notin DOMAIN States THEN s
    ELSE LET s1 == [s EXCEPT !.currentState = stateId,
                             !.timeline = States[stateId],
                             !.startTime = t]
         IN  emit(s1, "statechange", stateId)

setState(s, t, stateId) ==
    IF stateId \notin DOMAIN States THEN s
    ELSE LET s1 == [s EXCEPT !.currentState = stateId,
                             !.timeline = States[stateId],
                             !.currentTime = 0,
                             !.startTime = t]
         IN  emit(s1, "statechange", stateId)

\* requestAnimationFrame: a handle no live or remembered callback carries
FreshHandle(s) ==
    CHOOSE i \in 1..(Len(s.pending) + 2) :
        /\ i \notin Range(s.pending) \cup {s.animationFrame}
        /\ \A j \in 1..(i - 1) : j \in Range(s.pending) \cup {s.animationFrame}

\* this._animationFrame = requestAnimationFrame(() => this.animate())
schedule(s) ==
    LET hd == FreshHandle(s)
    IN  [s EXCEPT !.pending = Append(@, hd), !.animationFrame = hd]

\* elapsed that stays at currentTime
Elapsed_frozen(s, t) == s.currentTime

\* elapsed = (now - this._startTime) / 1000 * this.state.playbackRate
Elapsed(s, t) == (t - s.startTime) * s.playbackRate

\* the loop branch without the wrap of currentTime
animateLoop_noWrap(s, t) == [s EXCEPT !.startTime = t]

\* the loop branch of animate
animateLoop(s, t) == [s EXCEPT !.currentTime = 0, !.startTime = t]

\* the end branch without its call of pause()
animateEnd_noPause(s) == emit([s EXCEPT !.currentTime = s.duration], "end", 0)

\* the end branch of animate
animateEnd(s) == emit(pause([s EXCEPT !.currentTime = s.duration]), "end", 0)

RECURSIVE animate(_, _, _)

play(s, t, h) ==
    IF s.playing THEN s
    ELSE LET s1 == [s EXCEPT !.playing = TRUE, !.startTime = t - s.currentTime]
         IN  animate(emit(s1, "play", 0), t, h)

\* one call made by a listener; the listener is gone while it runs
HandlerCall(s, t, c) ==
    CASE c.op = "pause"    -> pause(s)
      [] c.op = "play"     -> play(s, t, <<>>)
      [] c.op = "stop"     -> stop(s)
      [] c.op = "seek"     -> seek(s, t, c.arg)
      [] c.op = "setState" -> setState(s, t, c.arg)

RECURSIVE RunHandler(_, _, _)

\* after one call s1 of the listener: dispatchEvent reports a listener's
\* exception and goes on
handlerNext(s1, t, h) ==
    IF s1.thrown THEN [s1 EXCEPT !.thrown = FALSE]
    ELSE RunHandler(s1, t, Tail(h))

RunHandler(s, t, h) ==
    IF h = <<>> THEN s
    ELSE handlerNext(HandlerCall(s, t, Head(h)), t, h)

\* animate after its sample s3: emit('update'), then the next frame
animateUpdate(s3, t, h) ==
    IF s3.thrown THEN s3
    ELSE schedule(RunHandler(emit(s3, "update", s3.currentTime), t, h))

\* animate from the sample on, currentTime wrapped or not
animateSample(s2, t, h) == animateUpdate(updateAnimations(s2, s2.currentTime), t, h)

\* animate once currentTime = elapsed
animateElapsed(s1, t, h) ==
    IF s1.currentTime >= s1.duration /\ ~s1.loop THEN animateEnd(s1)
    ELSE animateSample(IF s1.currentTime >= s1.duration THEN animateLoop(s1, t)
                       ELSE s1, t, h)

animate(s, t, h) ==
    IF ~s.playing THEN s
    ELSE animateElapsed([s EXCEPT !.currentTime = Elapsed(s, t)], t, h)

(* ------------------------------ construction -------------------------- *)
\* no document is being fetched
NoSource == El("<null>", [id |-> null], <<>>)

\* the constructor's fields, then parseElement up to emit('ready')
parseElement(timelineEl, optDuration, optLoop) ==
    [ playing |-> FALSE, currentTime |-> 0,
      duration |-> calculateDuration(parseTimeline(timelineEl), optDuration),
      playbackRate |-> 1, loop |-> optLoop, currentState |-> 0,
      timeline |-> parseTimeline(timelineEl), startTime |-> 0,
      animationFrame |-> 0, pending |-> <<>>, log |-> << Ev("ready", 0) >>,
      svgContent |-> SvgDocument, targetCache |-> <<>>,
      writes |-> <<>>, eased |-> <<>>, thrown |-> FALSE ]

(* ------------------------------ state machine ------------------------- *)
Op(op, arg, h) == [op |-> op, arg |-> arg, h |-> h]

\* `ended`: an 'end' has been emitted and no 'play' since
EndedAfter(l, e) ==
    LET ends  == { i \in 1..Len(l) : l[i].name = "end" }
        plays == { i \in 1..Len(l) : l[i].name = "play" }
        last(S) == CHOOSE i \in S : \A j \in S : j <= i
    IN  IF ends = {} /\ plays = {} THEN e
        ELSE IF ends = {} THEN FALSE
        ELSE IF plays = {} THEN TRUE
        ELSE last(ends) > last(plays)

\* the attributes that hold numbers
ScalarAttributes == {"x"}

\* every number the step wrote has a denominator within the bound
WithinPrecision(s) ==
    \A i \in 1..Len(s.writes) :
        s.writes[i].attribute \in ScalarAttributes => s.writes[i].value.d <= MaxDenominator

\* every transform string the step wrote is within the bound
WithinLength(s) ==
    \A i \in 1..Len(s.writes) :
        s.writes[i].attribute = "transform" => Len(s.writes[i].value) <= MaxTransformLen

Commit(s, op) ==
    /\ Len(s.pending) <= MaxPending
    /\ s.currentTime >= -MaxNow
    /\ WithinPrecision(s)
    /\ WithinLength(s)
    /\ playing' = s.playing
    /\ currentTime' = s.currentTime
    /\ duration' = s.duration
    /\ playbackRate' = s.playbackRate
    /\ loop' = s.loop
    /\ currentState' = s.currentState
    /\ timeline' = s.timeline
    /\ startTime' = s.startTime
    /\ animationFrame' = s.animationFrame
    /\ pending' = s.pending
    /\ log' = s.log
    /\ svgContent' = s.svgContent
    /\ targetCache' = s.targetCache
    /\ writes' = s.writes
    /\ eased' = s.eased
    /\ thrown' = s.thrown
    /\ ended' = EndedAfter(s.log, ended)
    /\ lastOp' = op

\* the state after new OpenASVG(...) returned the engine s1, still
\* fetching the document src
Constructed(s1, src) ==
    /\ playing = s1.playing
    /\ currentTime = s1.currentTime
    /\ duration = s1.duration
    /\ playbackRate = s1.playbackRate
    /\ loop = s1.loop
    /\ currentState = s1.currentState
    /\ timeline = s1.timeline
    /\ startTime = s1.startTime
    /\ animationFrame = s1.animationFrame
    /\ pending = s1.pending
    /\ log = s1.log
    /\ svgContent = s1.svgContent
    /\ targetCache = s1.targetCache
    /\ writes = s1.writes
    /\ eased = s1.eased
    /\ thrown = s1.thrown
    /\ ended = EndedAfter(s1.log, FALSE)
    /\ lastOp = Op("new", 0, <<>>)
    /\ exports = <<>>
    /\ now = 0
    /\ source = src

Init ==
    \E optDuration \in DurationAttrs, optLoop \in BOOLEAN, autoplay \in BOOLEAN :
        LET s0 == parseElement(MainTimelineEl, optDuration, optLoop)
        IN  Constructed(IF autoplay THEN play(s0, 0, <<>>) ELSE s0, NoSource)

\* the host calls play()
Play ==
    \E h \in HandlerScripts :
        /\ Commit(play(Engine, now, h), Op("play", 0, h))
        /\ UNCHANGED <<exports, now, source>>

Pause ==
    /\ Commit(pause(Engine), Op("pause", 0, <<>>))
    /\ UNCHANGED <<exports, now, source>>

Stop ==
    /\ Commit(stop(Engine), Op("stop", 0, <<>>))
    /\ UNCHANGED <<exports, now, source>>

Seek ==
    \E time \in SeekTimes :
        /\ Commit(seek(Engine, now, time), Op("seek", time, <<>>))
        /\ UNCHANGED <<exports, now, source>>

\* set playbackRate(rate)
SetRate ==
    \E rate \in Rates \ {playbackRate} :
        /\ Commit([Engine EXCEPT !.playbackRate = rate], Op("setRate", rate, <<>>))
        /\ UNCHANGED <<exports, now, source>>

\* set loop(value)
SetLoop ==
    \E value \in BOOLEAN \ {loop} :
        /\ Commit([Engine EXCEPT !.loop = value],
                  Op("setLoop", IF value THEN 1 ELSE 0, <<>>))
        /\ UNCHANGED <<exports, now, source>>

SetState ==
    \E stateId \in StateIds :
        /\ Commit(setState(Engine, now, stateId), Op("setState", stateId, <<>>))
        /\ UNCHANGED <<exports, now, source>>

\* the browser runs the oldest pending animation-frame callback
Tick ==
    \E h \in HandlerScripts :
        /\ pending # <<>>
        /\ Commit(animate([Engine EXCEPT !.pending = Tail(@)], now, h),
                  Op("tick", 0, h))
        /\ UNCHANGED <<exports, now, source>>

\* exportFrame(time) up to the returned promise
ExportFrame ==
    \E time \in SeekTimes :
        /\ Len(exports) < MaxExports
        /\ LET wasPlaying == playing
               s1 == IF wasPlaying THEN pause(Engine) ELSE Engine
               s2 == seek(s1, now, time)
           IN  /\ Commit(s2, Op("exportFrame", time, <<>>))
               /\ exports' = IF s2.thrown THEN exports
                              ELSE Append(exports, wasPlaying)
        /\ UNCHANGED <<now, source>>

\* the canvas.toBlob callback of an export runs
ExportDone ==
    \E i \in 1..Len(exports) :
        /\ Commit(IF exports[i] THEN play(Engine, now, <<>>) ELSE Engine,
                  Op("exportDone", IF exports[i] THEN 1 ELSE 0, <<>>))
        /\ exports' = [j \in 1..(Len(exports) - 1) |->
                          IF j < i THEN exports[j] ELSE exports[j + 1]]
        /\ UNCHANGED <<now, source>>

\* performance.now() advances
AdvanceTime ==
    /\ now < MaxNow
    /\ now' = now + 1
    /\ lastOp' = Op("advance", 0, <<>>)
    /\ log' = <<>>
    /\ writes' = <<>>
    /\ eased' = <<>>
    /\ thrown' = FALSE
    /\ UNCHANGED <<playing, currentTime, duration, playbackRate, loop,
                   currentState, timeline, startTime, animationFrame, pending,
                   exports, ended, svgContent, targetCache, source>>

\* the playback controller and the state machine
Next ==
    \/ Play
    \/ Pause
    \/ Stop
    \/ Seek
    \/ SetRate
    \/ SetLoop
    \/ SetState
    \/ Tick
    \/ AdvanceTime

Spec == Init /\ [][Next]_vars

\* the same, with frame exports in flight
NextExport ==
    \/ Next /\ UNCHANGED exports
    \/ ExportFrame
    \/ ExportDone

SpecExport == Init /\ [][NextExport]_vars

(* ----------------- playback left alone by the host -------------------- *)
\* the browser runs the oldest pending callback; no listener is registered
TickQuiet ==
    /\ pending # <<>>
    /\ Commit(animate([Engine EXCEPT !.pending = Tail(@)], now, <<>>),
              Op("tick", 0, <<>>))
    /\ UNCHANGED <<exports, now, source>>

\* the host and its listeners act at time 0 only
HostCalls ==
    /\ now = 0
    /\ ( Play \/ Pause \/ Stop \/ Seek \/ SetRate \/ SetLoop \/ SetState \/ Tick )

NextLive ==
    \/ HostCalls
    \/ TickQuiet
    \/ AdvanceTime

\* requestAnimationFrame callbacks are run, and the clock goes on.
\* Weak fairness of TickQuiet, written with its enabling condition: each
\* of its steps records a tick with no listener, and it is enabled when a
\* frame callback is pending, unless a negative rate has taken currentTime
\* below the range the model keeps.
TickFairness ==
    \/ []<>(pending = <<>> \/ playbackRate < 0)
    \/ []<><<lastOp'.op = "tick" /\ lastOp'.h = <<>>>>_vars

SpecLive == Init /\ [][NextLive]_vars /\ TickFairness /\ WF_vars(AdvanceTime)

(* ------------------- sampling one leaf of a timeline ------------------ *)
\* the <animate> leaves sampled: on element a, from 0 to 8, starting at 0
\* or 2, lasting 0 or 4, once or twice, forwards or back and forth, with
\* fill none or freeze; one leaf on a selector that does not parse; and
\* one leaf with no from attribute
SampleLeafEls ==
    { Animate([target |-> "#a", from |-> "0", to |-> "8", start |-> start,
               duration |-> dur, repeat |-> repeat, reverse |-> reverse,
               fill |-> fill]) :
        start \in {"0", "2ms"}, dur \in {"0s", "4ms"},
        repeat \in {"1", "2"}, reverse \in {"false", "true"},
        fill \in {"none", "freeze"} }
    \cup { Animate([target |-> "#", from |-> "0", to |-> "8", duration |-> "4ms"]) }
    \cup { Animate([target |-> "#a", to |-> "8", duration |-> "4ms", repeat |-> "2"]) }

SampleTimes == {0, 2, 5, 7, 10}

InitSample ==
    \E leafEl \in SampleLeafEls :
        Constructed(parseElement(El("timeline", [id |-> "main"], << leafEl >>),
                                 0, FALSE), NoSource)

SeekSample ==
    \E time \in SampleTimes :
        /\ Commit(seek(Engine, now, time), Op("seek", time, <<>>))
        /\ UNCHANGED <<exports, now, source>>

NextSample ==
    \/ SeekSample
    \/ Play
    \/ Pause
    \/ Stop
    \/ Tick
    \/ AdvanceTime

SpecSample == InitSample /\ [][NextSample]_vars

(* ------------------- sampling a leaf of each kind --------------------- *)
\* an <svg> with two shapes: a carries a number, a transform, path data and
\* a fill; c carries path data only
ShapesDocument ==
    [ a |-> [ x |-> Num(0), transform |-> "scale(2)", d |-> "M0 0 L10 0",
              fill |-> "#000000" ],
      c |-> [ d |-> "M0 0 L20 0" ] ]

\* what a leaf may say about repeat: nothing, once, three times
RepeatAttrs == { <<>>, [repeat |-> "1"], [repeat |-> "3"] }

\* one leaf of each kind, each 2 ms long
KindEls ==
    { Animate([target |-> "#a", from |-> "0", to |-> "8", duration |-> "2ms"]),
      El("animate-transform", [target |-> "#a", type |-> "rotate", from |-> "0",
                               to |-> "20", duration |-> "2ms"], <<>>),
      El("animate-transform", [target |-> "#a", type |-> "rotate", from |-> "0",
                               to |-> "20", duration |-> "2ms",
                               additive |-> "sum"], <<>>),
      El("animate-transform", [target |-> "#c", type |-> "rotate", from |-> "0",
                               to |-> "20", duration |-> "2ms",
                               additive |-> "sum"], <<>>),
      El("animate-path", [target |-> "#a", path |-> "M0 0 L10 0",
                          duration |-> "2ms"], <<>>),
      El("animate-path", [target |-> "#a", path |-> "#c", rotate |-> "auto",
                          duration |-> "2ms"], <<>>),
      El("animate-color", [target |-> "#a", attribute |-> "fill",
                           from |-> "#000000", to |-> "#ff0000",
                           duration |-> "2ms"], <<>>),
      El("morph", [target |-> "#a", to |-> "#c", duration |-> "2ms"], <<>>) }

KindLeafEls ==
    { El(el.tagName, el.attributes @@ rep, <<>>) : el \in KindEls, rep \in RepeatAttrs }

\* options.duration: absent, or 6 ms
KindDurations == {0, 6}
KindTimes == {0, 1, 2, 3, 6}

\* the engine built on a one-leaf <timeline>; source keeps that <timeline>
InitKinds ==
    \E leafEl \in KindLeafEls, optDuration \in KindDurations :
        LET timelineEl == El("timeline", [id |-> "main"], << leafEl >>)
            s0 == parseElement(timelineEl, optDuration, FALSE)
        IN  Constructed([s0 EXCEPT !.svgContent = ShapesDocument], timelineEl)

SeekKinds ==
    \E time \in KindTimes :
        /\ Commit(seek(Engine, now, time), Op("seek", time, <<>>))
        /\ UNCHANGED <<exports, now, source>>

NextKinds ==
    \/ SeekKinds
    \/ Stop

SpecKinds == InitKinds /\ [][NextKinds]_vars

(* ------------------- loading documents with groups -------------------- *)
\* children of the groups: <animate> leaves of 1, 2 and 3 seconds, and an
\* element parseAnimation does not know
AnimateEls == { Animate([target |-> "#b", duration |-> dur]) : dur \in {"1s", "2s", "3s"} }
ChildEls == AnimateEls \cup { El("desc", [id |-> "d"], <<>>) }

GroupTags == {"sequence", "parallel", "animate-set"}
Group(tag, children) == El(tag, [target |-> "#b"], children)

\* groups of one to three children
GroupEls1 ==
    { Group(tag, children) :
        tag \in GroupTags,
        children \in { << c1 >> : c1 \in ChildEls }
                 \cup { << c1, c2 >> : c1 \in ChildEls, c2 \in ChildEls }
                 \cup { << c1, c2, c3 >> : c1 \in AnimateEls, c2 \in AnimateEls,
                                         c3 \in AnimateEls } }

\* a leaf, then a group of two leaves
GroupEls2 ==
    { Group(tag, << c1, Group(tag1, << c2, c3 >>) >>) :
        tag \in GroupTags, tag1 \in GroupTags,
        c1 \in AnimateEls, c2 \in AnimateEls, c3 \in AnimateEls }

\* three levels
GroupEls3 ==
    { Group(tag, << Group(tag2, << c1, Group(tag1, << c2, c3 >>) >>), c1 >>) :
        tag \in GroupTags, tag2 \in GroupTags, tag1 \in GroupTags,
        c1 \in {Animate([target |-> "#b", duration |-> "1s"])},
        c2 \in AnimateEls, c3 \in AnimateEls }

\* a leaf, then a group of one leaf, with start offsets and repeat counts
GroupEls4 ==
    { Group(tag, << Animate([target |-> "#b", duration |-> "2s", repeat |-> repeat1]),
                    Group(tag1, << Animate([target |-> "#b", start |-> start,
                                            duration |-> "1s", repeat |-> repeat2]) >>) >>) :
        tag \in GroupTags, tag1 \in GroupTags,
        repeat1 \in {"1", "3", "infinite"}, start \in {"0s", "1s"},
        repeat2 \in {"1", "2", "infinite"} }

Sources ==
    { El("timeline", [id |-> "main"], << g >>) :
        g \in GroupEls1 \cup GroupEls2 \cup GroupEls3 \cup GroupEls4 }

\* the root's duration attribute: absent, or 5 seconds
RootDurations == {"0s", "5s"}

\* the constructor's fields (lines 14-34), before loadFromURL has a response
Unloaded ==
    [ playing |-> FALSE, currentTime |-> 0, duration |-> 0,
      playbackRate |-> 1, loop |-> FALSE, currentState |-> 0,
      timeline |-> <<>>, startTime |-> 0,
      animationFrame |-> 0, pending |-> <<>>, log |-> <<>>,
      svgContent |-> SvgDocument, targetCache |-> <<>>,
      writes |-> <<>>, eased |-> <<>>, thrown |-> FALSE ]

InitLoad == \E src \in Sources : Constructed(Unloaded, src)

\* loadFromURL's response arrives: parseXML, parseElement (autoplay="false")
Load ==
    \E rootDuration \in RootDurations :
        /\ source # NoSource
        /\ Commit(parseElement(source, parseTime(rootDuration), loop),
                  Op("load", parseTime(rootDuration), <<>>))
        /\ source' = NoSource
        /\ UNCHANGED <<exports, now>>

NextLoad ==
    \/ Load
    \/ Seek

SpecLoad == InitLoad /\ [][NextLoad]_vars

(* ------------------------------- claims ------------------------------- *)

\* C1: in every reachable state currentTime lies in [0, duration].
C1_CurrentTimeInRange == 0 <= currentTime /\ currentTime <= duration

\* C2: at most one animation-frame callback is pending at any time.
C2_AtMostOnePendingTick == Len(pending) <= 1

\* C3: after seek(t), playing or paused, currentTime is t clamped to
\* [0, duration], and the call made exactly one sample, at that time.
C3_SeekClampsAndSamples ==
    lastOp.op = "seek" =>
        /\ currentTime = (IF lastOp.arg < 0 THEN 0
                          ELSE IF lastOp.arg > duration THEN duration
                          ELSE lastOp.arg)
        /\ log = << Ev("sample", currentTime), Ev("seek", currentTime) >>

C3_Witness ==
    /\ lastOp.op = "seek"
    /\ lastOp.arg > duration
    /\ playing
    /\ now > 0
    /\ currentTime = duration

\* C4: play() while not playing, at any positive rate and with no listener,
\* leaves currentTime where it was: the tick it runs at that instant
\* computes elapsed = the currentTime held when play() was called.
C4_PlayKeepsCurrentTime ==
    [][ ( /\ lastOp'.op = "play"
          /\ lastOp'.h = <<>>
          /\ ~playing
          /\ playbackRate > 0
          /\ currentTime < duration )
        => currentTime' = currentTime ]_vars

\* C5: a change of playbackRate while playing leaves unchanged the time a
\* tick at that instant computes.
C5_SetRateKeepsCurrentTime ==
    [][ ( /\ lastOp'.op = "setRate"
          /\ playing
          /\ playbackRate > 0
          /\ playbackRate' > 0 )
        => (now - startTime') * playbackRate' = (now - startTime) * playbackRate ]_vars

\* C6: pause() changes nothing and emits nothing when not playing; when
\* playing it leaves no tick pending and freezes currentTime; while paused
\* no step other than play, seek, stop or setState moves currentTime or
\* emits 'update'.
C6_PauseFreezes ==
    [][ /\ ( lastOp'.op = "pause" /\ ~playing ) =>
               /\ UNCHANGED <<playing, currentTime, duration, playbackRate, loop,
                              currentState, timeline, startTime, animationFrame,
                              pending>>
               /\ log' = <<>>
        /\ ( lastOp'.op = "pause" /\ playing ) =>
               /\ ~playing'
               /\ pending' = <<>>
               /\ currentTime' = currentTime
               /\ log' = << Ev("pause", 0) >>
        /\ ( ~playing /\ lastOp'.op \in {"pause", "tick", "advance", "setRate", "setLoop"} ) =>
               /\ currentTime' = currentTime
               /\ "update" \notin Names(log') ]_vars

\* C7: after stop(), from any state, playing = false, currentTime = 0, no
\* tick is pending, the call sampled the timeline once, at 0, and its last
\* event is 'stop'.
C7_StopResets ==
    lastOp.op = "stop" =>
        /\ ~playing
        /\ currentTime = 0
        /\ pending = <<>>
        /\ Len(log) >= 2
        /\ log[Len(log) - 1] = Ev("sample", 0)
        /\ log[Len(log)] = Ev("stop", 0)
        /\ Cardinality({ i \in 1..Len(log) : log[i].name = "sample" }) = 1

\* C8: a tick that observes elapsed >= duration with loop disabled sets
\* currentTime = duration and playing = false, emits 'end' last and no
\* 'update', and schedules no tick; after an 'end' no 'update' is emitted
\* before the next 'play'.
C8_TickEndsPlayback ==
    [][ /\ ( /\ lastOp'.op = "tick"
              /\ playing
              /\ ~loop
              /\ (now - startTime) * playbackRate >= duration ) =>
               /\ currentTime' = duration
               /\ ~playing'
               /\ log' # <<>>
               /\ log'[Len(log')] = Ev("end", 0)
               /\ "update" \notin Names(log')
               /\ Len(pending') < Len(pending)
               /\ Range(pending') \subseteq Range(pending)
        /\ ( ended /\ "play" \notin Names(log') ) => "update" \notin Names(log') ]_vars

C8_Witness ==
    /\ lastOp.op = "tick"
    /\ now > 0
    /\ ended
    /\ ~playing
    /\ currentTime = duration
    /\ log = << Ev("pause", 0), Ev("end", 0) >>

\* C9 as stated: the tick that wraps emits an 'end-of-cycle' event, stays
\* playing and reschedules.
C9_EmitsEndOfCycle ==
    [][ ( /\ lastOp'.op = "tick"
          /\ playing
          /\ loop
          /\ (now - startTime) * playbackRate >= duration ) =>
           /\ "end-of-cycle" \in Names(log')
           /\ "end" \notin Names(log')
           /\ pending' # <<>>
           /\ pending'[Len(pending')] = animationFrame' ]_vars

\* C9 as amended: a tick that observes elapsed >= duration with loop
\* enabled samples at 0 and emits 'update' with time 0 (no other event of
\* its own), never 'end', and reschedules; with no listener it leaves
\* currentTime = 0, the origin = now and playing = true.  While loop stays
\* enabled no step emits 'end'.
C9_TickWraps ==
    [][ /\ ( /\ lastOp'.op = "tick"
              /\ playing
              /\ loop
              /\ (now - startTime) * playbackRate >= duration ) =>
               /\ Len(log') >= 2
               /\ log'[1] = Ev("sample", 0)
               /\ log'[2] = Ev("update", 0)
               /\ pending' # <<>>
               /\ pending'[Len(pending')] = animationFrame'
               /\ lastOp'.h = <<>> =>
                      /\ playing'
                      /\ currentTime' = 0
                      /\ startTime' = now
                      /\ Len(log') = 2
        /\ ( loop /\ loop' ) => "end" \notin Names(log') ]_vars

C9_Witness ==
    /\ lastOp.op = "tick"
    /\ lastOp.h = <<>>
    /\ loop
    /\ playing
    /\ now > 0
    /\ currentTime = 0
    /\ startTime = now
    /\ log = << Ev("sample", 0), Ev("update", 0) >>

\* C10: setState with an id the table does not hold changes nothing and
\* emits nothing; with a known id it makes that state's timeline the
\* active one, sets currentTime = 0 and the origin = now, records the id
\* and emits 'statechange' with the id (and nothing else changes).
C10_SetState ==
    [][ lastOp'.op = "setState" =>
          /\ UNCHANGED <<playing, duration, playbackRate, loop, animationFrame, pending>>
          /\ IF lastOp'.arg \in DOMAIN States
             THEN /\ timeline' = States[lastOp'.arg]
                  /\ currentTime' = 0
                  /\ startTime' = now
                  /\ currentState' = lastOp'.arg
                  /\ log' = << Ev("statechange", lastOp'.arg) >>
             ELSE /\ UNCHANGED <<timeline, currentTime, startTime, currentState>>
                  /\ log' = <<>> ]_vars

C10_Witness ==
    /\ lastOp.op = "setState"
    /\ lastOp.arg \in DOMAIN States
    /\ currentState = lastOp.arg
    /\ timeline = States[lastOp.arg]
    /\ timeline # MainTimeline
    /\ playing
    /\ now > 0
    /\ startTime = now
    /\ currentTime = 0

\* C11: setState with a known id samples the newly active timeline once,
\* at 0, before it returns.
C11_SetStateSamples ==
    ( lastOp.op = "setState" /\ lastOp.arg \in DOMAIN States ) =>
        Ev("sample", 0) \in Range(log)

\* C12: seek, and setState with a known id, cancel every tick that was
\* pending when they were called: none of them is pending afterwards.
C12_CancelBeforeMutate ==
    [][ ( \/ lastOp'.op = "seek"
          \/ ( lastOp'.op = "setState" /\ lastOp'.arg \in DOMAIN States ) )
        => Range(pending') \cap Range(pending) = {} ]_vars

\* C13: a step that is no state activation keeps every cached list as it
\* is; a state activation (setState with a known id) leaves the cache empty.
C13_RebuildInvalidatesCache ==
    [][ IF lastOp'.op = "setState" /\ lastOp'.arg \in DOMAIN States
        THEN DOMAIN targetCache' = {}
        ELSE \A selector \in DOMAIN targetCache :
                 /\ selector \in DOMAIN targetCache'
                 /\ targetCache'[selector] = targetCache[selector] ]_vars

\* C14: when the export's callback runs right after exportFrame(t), playing
\* is what it was when exportFrame was called.
C14_ExportRestoresPlaying ==
    [][ ( lastOp.op = "exportFrame" /\ lastOp'.op = "exportDone" )
        => ( playing' <=> lastOp'.arg = 1 ) ]_vars

\* the timeline holds a leaf whose selector querySelectorAll rejects
Faulty(tl) == \E i \in 1..Len(tl) : tl[i].target \notin DOMAIN querySelectorAll

\* C15: a play() or a tick whose sample faults emits 'error' and leaves the
\* engine paused with no tick pending; the engine is never playing with no
\* tick pending.
C15_FaultPausesEngine ==
    /\ playing => pending # <<>>
    /\ ( lastOp.op \in {"play", "tick"} /\ Faulty(timeline) /\ "sample" \in Names(log) ) =>
           /\ "error" \in Names(log)
           /\ ~playing
           /\ pending = <<>>

\* a seek that returned, on a timeline of one leaf: the leaf, and the time
\* relative to its start at which the seek sampled it
SeekSampled == lastOp.op = "seek" /\ ~thrown /\ Len(timeline) = 1
SampledLeaf == timeline[1]
SampledRelative == currentTime - SampledLeaf.start

\* C16: a leaf sampled before its start gets no attribute written; every
\* progress that a step passes into the easing function lies in [0, 1].
C16_ProgressInUnitInterval ==
    /\ ( SeekSampled /\ SampledRelative < 0 ) => writes = <<>>
    /\ \A i \in 1..Len(eased) :
           /\ eased[i].d > 0
           /\ 0 <= eased[i].n
           /\ eased[i].n <= eased[i].d

\* C17: a leaf of duration 0 sampled at or after its start is sampled with
\* progress 1 and gets its end value written; no write carries NaN.
C17_ZeroDurationWritesEnd ==
    /\ ( SeekSampled /\ SampledLeaf.duration = 0 /\ SampledRelative >= 0 ) =>
           /\ eased = << [n |-> 1, d |-> 1] >>
           /\ writes = << [target |-> "a", attribute |-> "x",
                           value |-> [n |-> 8, d |-> 1]] >>
    /\ \A i \in 1..Len(writes) : writes[i].value.d > 0

\* C18: a finished leaf with fill 'freeze' gets its final value written by
\* the sample (the value at progress 0 if it reverses and repeat - 1 is odd,
\* at progress 1 otherwise); a finished leaf with fill 'none' gets no write.
C18_FreezeHoldsFinalValue ==
    ( /\ SeekSampled
      /\ SampledLeaf.duration > 0
      /\ SampledRelative >= SampledLeaf.duration * SampledLeaf.repeat ) =>
        IF SampledLeaf.fill = "freeze"
        THEN writes = << [target |-> "a", attribute |-> "x",
                          value |-> IF SampledLeaf.reverse /\ (SampledLeaf.repeat - 1) % 2 = 1
                                    THEN [n |-> 0, d |-> 1]
                                    ELSE [n |-> 8, d |-> 1]] >>
        ELSE writes = <<>>

\* C19: an active leaf of duration > 0, sampled at relative time r, is
\* sampled with progress (r mod duration) / duration when it does not
\* reverse or floor(r / duration) is even, and 1 minus that otherwise.
C19_ActiveProgress ==
    ( /\ SeekSampled
      /\ SampledLeaf.duration > 0
      /\ SampledRelative >= 0
      /\ SampledRelative \div SampledLeaf.duration < SampledLeaf.repeat ) =>
        /\ Len(eased) = 1
        /\ eased[1].d > 0
        /\ IF ~SampledLeaf.reverse \/ (SampledRelative \div SampledLeaf.duration) % 2 = 0
           THEN eased[1].n * SampledLeaf.duration =
                    (SampledRelative % SampledLeaf.duration) * eased[1].d
           ELSE eased[1].n * SampledLeaf.duration =
                    (SampledLeaf.duration - (SampledRelative % SampledLeaf.duration)) * eased[1].d

\* duration 4, reversing, sampled at relative time 5: progress 3/4
C19_Witness ==
    /\ SeekSampled
    /\ SampledLeaf.duration = 4
    /\ SampledLeaf.reverse
    /\ SampledRelative = 5
    /\ eased = << [n |-> 3, d |-> 4] >>
    /\ writes = << [target |-> "a", attribute |-> "x", value |-> [n |-> 6, d |-> 1]] >>

\* the sum and the largest of the durations of a list of animations
RECURSIVE SumOfDurations(_)
SumOfDurations(anims) ==
    IF anims = <<>> THEN 0 ELSE Head(anims).duration + SumOfDurations(Tail(anims))

LargestDuration(anims) ==
    IF anims = <<>> THEN 0
    ELSE CHOOSE d \in { anims[i].duration : i \in 1..Len(anims) } :
             \A i \in 1..Len(anims) : anims[i].duration <= d

RECURSIVE GroupDurationsHold(_)
GroupDurationsHold(anim) ==
    anim.type \in GroupTypes =>
        /\ anim.duration = IF anim.type = "sequence"
                           THEN SumOfDurations(anim.animations)
                           ELSE LargestDuration(anim.animations)
        /\ \A i \in 1..Len(anim.animations) : GroupDurationsHold(anim.animations[i])

\* C20: in the parsed timeline every sequence has the sum of its children's
\* durations as its duration, and every parallel group and every set the
\* largest of them, at every depth.
C20_GroupDurations ==
    \A i \in 1..Len(timeline) : GroupDurationsHold(timeline[i])

\* children of 1, 2 and 3 seconds: the sequence lasts 6 seconds
C20_Witness ==
    /\ lastOp.op = "load"
    /\ Len(timeline) = 1
    /\ timeline[1].type = "sequence"
    /\ Len(timeline[1].animations) = 3
    /\ timeline[1].animations[1].duration = 1000
    /\ timeline[1].animations[2].duration = 2000
    /\ timeline[1].animations[3].duration = 3000
    /\ timeline[1].duration = 6000

\* start + duration * iteration count of every leaf of a list of
\* animations, groups opened; unbounded repeat counts as one iteration
RECURSIVE LeafEnds(_)
LeafEnds(anims) ==
    IF anims = <<>> THEN {}
    ELSE LET anim == Head(anims)
         IN  ( IF anim.type \in GroupTypes THEN LeafEnds(anim.animations)
               ELSE { anim.start + anim.duration *
                          (IF anim.repeat = Infinity THEN 1 ELSE anim.repeat) } )
             \cup LeafEnds(Tail(anims))

LargestEnd(anims) ==
    IF LeafEnds(anims) = {} THEN 0
    ELSE CHOOSE e \in LeafEnds(anims) : \A f \in LeafEnds(anims) : f <= e

\* C21: the duration of a loaded document is the root's duration attribute
\* when it carries one, and otherwise the largest start + duration *
\* iteration count over the leaves at every depth.
C21_TotalDuration ==
    lastOp.op = "load" =>
        duration = IF lastOp.arg # 0 THEN lastOp.arg ELSE LargestEnd(timeline)

\* a sequence of a 2 s leaf and a group whose leaf starts 1 s in, lasts 1 s
\* and repeats without bound: the leaf ends at 4 s, and so does the timeline
C21_Witness ==
    /\ lastOp.op = "load"
    /\ lastOp.arg = 0
    /\ Len(timeline) = 1
    /\ timeline[1].type = "sequence"
    /\ Len(timeline[1].animations) = 2
    /\ timeline[1].animations[2].type \in GroupTypes
    /\ Len(timeline[1].animations[2].animations) = 1
    /\ timeline[1].animations[2].animations[1].repeat = Infinity
    /\ timeline[1].animations[2].animations[1].start = 3000
    /\ duration = 4000

\* C26: after setState with a known id, duration is the total duration of
\* that state's timeline (no document here carries a duration attribute).
C26_DurationFollowsState ==
    ( lastOp.op = "setState" /\ lastOp.arg \in DOMAIN States ) =>
        duration = LargestEnd(timeline)

\* C22: a seek that follows a seek to the same time leaves every attribute
\* of every element as the first seek left it.
C22_ResampleIdempotent ==
    [][ ( /\ lastOp.op = "seek" /\ ~thrown
          /\ lastOp'.op = "seek" /\ ~thrown'
          /\ lastOp'.arg = lastOp.arg )
        => svgContent' = svgContent ]_vars

\* C27: once the host is silent, an engine that is playing with loop
\* disabled and a positive rate, and whose end lies within the clock's
\* range, eventually has emitted 'end' and rests with playing = false,
\* currentTime = duration and no tick pending.
C27_EventuallyEnds ==
    ( /\ now > 0
      /\ playing
      /\ ~loop
      /\ playbackRate > 0
      /\ (MaxNow - startTime) * playbackRate >= duration )
    ~> ( ended /\ ~playing /\ currentTime = duration /\ pending = <<>> )

C27_Witness ==
    /\ lastOp.op = "tick"
    /\ now >= 2
    /\ ~loop
    /\ playbackRate > 0
    /\ ended
    /\ ~playing
    /\ currentTime = duration
    /\ pending = <<>>
    /\ animationFrame = 0

\* the one leaf of the timeline, as parsed and as written in the document
Leaf == timeline[1]
LeafEl == source.children[1]

\* the last step sampled an Active leaf of the given kind
SampledActive(kind) ==
    /\ lastOp.op \in {"seek", "stop"}
    /\ ~thrown
    /\ Len(timeline) = 1
    /\ Leaf.type = kind
    /\ Len(eased) = 1

\* C23: while a morph leaf is Active the target's path data is the source
\* shape's original path data when the eased progress is below 0.5 and the
\* destination's otherwise, whatever samples came before.
C23_MorphShowsSourceOrDestination ==
    SampledActive("morph") =>
        svgContent.a.d = IF Less(eased[1], Rat(1, 2))
                         THEN ShapesDocument.a.d
                         ELSE ShapesDocument.c.d

\* the rotation from 0 to 20 at the progress of the step's sample
RotateAt(progress) == "rotate(" \o String(Times(Num(20), progress)) \o ")"

\* C24: each update of a transform leaf with additive 'sum' sets the
\* target's transform to the existing string, one space, and the computed
\* transform; with 'replace' it sets the computed transform alone.
C24_AdditiveAppends ==
    [][ ( /\ Len(timeline) = 1
          /\ Leaf.type = "animate-transform"
          /\ Len(writes') = 1 )
        => LET target == writes'[1].target
               existing == IF "transform" \in DOMAIN svgContent[target]
                           THEN svgContent[target].transform ELSE ""
               computed == RotateAt(eased'[1])
           IN  svgContent'[target].transform =
                   IF Leaf.additive = "sum"
                   THEN existing \o " " \o computed
                   ELSE computed ]_vars

\* 'scale(2)' and a computed 'rotate(10)' have become 'scale(2) rotate(10)'
C24_Witness ==
    /\ SampledActive("animate-transform")
    /\ Leaf.additive = "sum"
    /\ eased[1] = Rat(1, 2)
    /\ Len(writes) = 1
    /\ svgContent.a.transform = "scale(2) rotate(10)"

\* C25: a leaf of any kind with a finite repeat count r (one when the
\* attribute is absent) and a positive duration d is Finished, and so not
\* written, at every sample time t with floor((t - start) / d) >= r.
C25_FinishedAfterRepeat ==
    ( /\ lastOp.op = "seek"
      /\ Len(timeline) = 1
      /\ Leaf.duration > 0
      /\ currentTime >= Leaf.start
      /\ (currentTime - Leaf.start) \div Leaf.duration
             >= parseInt(Or(getAttribute(LeafEl, "repeat"), "1")) )
    => writes = <<>>

====
